---- MODULE Spec2Model ----
(***************************************************************************)
(* Model of the jsonrpc package: RawID, Params, Request, Response,         *)
(* ErrorObject, the Message envelope with its JSON mapping and validity    *)
(* check, the Respond helpers, ParamsDecoder and the ErrorConst catalog.   *)
(*                                                                         *)
(* Bytes are sequences of one-character strings.  A Go pointer is a        *)
(* sequence of length 0 (nil) or 1 (the pointee).  A Go error is a string, *)
(* "" meaning nil.  A Message on the wire is a record of its members' raw *)
(* value tokens (<<>> for an absent member); duplicate and unknown keys    *)
(* are not modelled there.  Params handed to a decoder are their bytes.    *)
(***************************************************************************)
EXTENDS Integers, Sequences, FiniteSets, TLC

(***************************************************************************)
(* Bounds                                                                  *)
(***************************************************************************)
\* longest identifier handed to RawID validation
MaxIDLen == 70
\* number of distinct payload values an application responds with
MaxPayload == 2
\* every identifier up to this length over IDAlphabet is validated
MaxShortID == 3
\* most fields of a record destination handed to ParamsDecoder; wire
\* arrays have up to one element more
MaxFields == 2
\* how far beyond either end of the server-error band the codes handed to
\* IsServerError go
CodeMargin == 10

(***************************************************************************)
(* Characters                                                              *)
(***************************************************************************)
Digits == {"0", "1", "2", "3", "4", "5", "6", "7", "8", "9"}
NonZeroDigits == Digits \ {"0"}
HexDigits == Digits \cup {"a", "b", "c", "d", "e", "f", "A", "B", "C", "D", "E", "F"}
WhiteSpace == {" ", "\t", "\n", "\r"}
\* control bytes (< 0x20) that can occur in the inputs
ControlChars == {"\t", "\n", "\r"}
SimpleEscapes == {"\"", "\\", "/", "b", "f", "n", "r", "t"}

At(s, i) == IF i >= 1 /\ i <= Len(s) THEN s[i] ELSE ""

Rep(c, n) == [i \in 1..n |-> c]

(***************************************************************************)
(* encoding/json syntax check (json.Valid, and the checkValid pass that    *)
(* json.Unmarshal and the Marshaler output compaction run).  Each parse    *)
(* operator returns the index after what it consumed, or -1.               *)
(***************************************************************************)
Min(S) == CHOOSE k \in S : \A j \in S : k <= j

\* the first index from i on whose byte is not in cs (Len(s) + 1 if none)
SkipWhile(s, i, cs) == Min({k \in i..(Len(s) + 1) : At(s, k) \notin cs})

SkipWS(s, i) == SkipWhile(s, i, WhiteSpace)

SkipDigits(s, i) == SkipWhile(s, i, Digits)

ParseExp(s, i) ==
    IF At(s, i) \in {"e", "E"}
    THEN LET j == IF At(s, i + 1) \in {"+", "-"} THEN i + 2 ELSE i + 1
         IN  IF At(s, j) \in Digits THEN SkipDigits(s, j) ELSE -1
    ELSE i

ParseFrac(s, i) ==
    IF At(s, i) = "."
    THEN IF At(s, i + 1) \in Digits THEN ParseExp(s, SkipDigits(s, i + 1)) ELSE -1
    ELSE ParseExp(s, i)

ParseNumber(s, i) ==
    LET j == IF At(s, i) = "-" THEN i + 1 ELSE i
    IN  IF At(s, j) = "0" THEN ParseFrac(s, j + 1)
        ELSE IF At(s, j) \in NonZeroDigits THEN ParseFrac(s, SkipDigits(s, j + 1))
        ELSE -1

RECURSIVE ParseString(_, _)
\* i is the index after the opening quote; plain bytes are passed over up
\* to the next quote, backslash, control byte or the end
ParseString(s, i) ==
    LET j == Min({k \in i..(Len(s) + 1) :
                    At(s, k) \in {"", "\"", "\\"} \cup ControlChars})
        c == At(s, j)
    IN  IF c = "" THEN -1
        ELSE IF c = "\"" THEN j + 1
        ELSE IF c = "\\"
             THEN IF At(s, j + 1) \in SimpleEscapes THEN ParseString(s, j + 2)
                  ELSE IF At(s, j + 1) = "u" /\ \A k \in 2..5 : At(s, j + k) \in HexDigits
                       THEN ParseString(s, j + 6)
                  ELSE -1
        ELSE -1

ParseLiteral(s, i, lit) ==
    IF \A k \in 1..Len(lit) : At(s, i + k - 1) = lit[k] THEN i + Len(lit) ELSE -1

RECURSIVE ParseValue(_, _)
RECURSIVE ParseElems(_, _)
RECURSIVE ParseMembers(_, _)

ParseValue(s, i) ==
    LET c == At(s, i)
    IN  IF c = "\"" THEN ParseString(s, i + 1)
        ELSE IF c = "[" THEN
            LET j == SkipWS(s, i + 1)
            IN  IF At(s, j) = "]" THEN j + 1 ELSE ParseElems(s, j)
        ELSE IF c = "{" THEN
            LET j == SkipWS(s, i + 1)
            IN  IF At(s, j) = "}" THEN j + 1 ELSE ParseMembers(s, j)
        ELSE IF c = "-" \/ c \in Digits THEN ParseNumber(s, i)
        ELSE IF c = "n" THEN ParseLiteral(s, i, <<"n", "u", "l", "l">>)
        ELSE IF c = "t" THEN ParseLiteral(s, i, <<"t", "r", "u", "e">>)
        ELSE IF c = "f" THEN ParseLiteral(s, i, <<"f", "a", "l", "s", "e">>)
        ELSE -1

\* i is the index of the first byte of an array element
ParseElems(s, i) ==
    LET v == ParseValue(s, i)
    IN  IF v = -1 THEN -1
        ELSE LET k == SkipWS(s, v)
             IN  IF At(s, k) = "," THEN ParseElems(s, SkipWS(s, k + 1))
                 ELSE IF At(s, k) = "]" THEN k + 1
                 ELSE -1

\* i is the index of the first byte of an object key
ParseMembers(s, i) ==
    IF At(s, i) # "\"" THEN -1
    ELSE LET e == ParseString(s, i + 1)
         IN  IF e = -1 THEN -1
             ELSE LET c == SkipWS(s, e)
                  IN  IF At(s, c) # ":" THEN -1
                      ELSE LET v == ParseValue(s, SkipWS(s, c + 1))
                           IN  IF v = -1 THEN -1
                               ELSE LET k == SkipWS(s, v)
                                    IN  IF At(s, k) = "," THEN ParseMembers(s, SkipWS(s, k + 1))
                                        ELSE IF At(s, k) = "}" THEN k + 1
                                        ELSE -1

JSONValid(s) ==
    LET v == ParseValue(s, SkipWS(s, 1))
    IN  v # -1 /\ SkipWS(s, v) = Len(s) + 1

(***************************************************************************)
(* RawID                                                                   *)
(***************************************************************************)
\* the limit counting the quotes twice
maxIDLengthQuotesTwice == 32 * 2 + 2 + 2 + 2

\* 32 hex encoded bytes, with 0x prefix, with quotes
maxIDLength == 32 * 2 + 2 + 2

NullBytes == <<"n", "u", "l", "l">>

\* IsValid without the closing-quote test
IsValidNoClosingQuote(id) ==
    IF Len(id) = 0 THEN TRUE
    ELSE IF Len(id) > maxIDLength THEN FALSE
    ELSE IF id = NullBytes THEN TRUE
    ELSE IF id[1] = "\"" THEN JSONValid(id)
    ELSE \A k \in 1..Len(id) : id[k] \in Digits

IsValid(id) ==
    IF Len(id) = 0 THEN TRUE
    ELSE IF Len(id) > maxIDLength THEN FALSE
    ELSE IF id = NullBytes THEN TRUE
    ELSE IF id[1] = "\"" THEN id[Len(id)] = "\"" /\ JSONValid(id)
    ELSE \A k \in 1..Len(id) : id[k] \in Digits

IsNotification(id) == Len(id) = 0


RawIDMarshalJSON(id) ==
    IF ~IsValid(id) THEN [data |-> <<>>, err |-> "invalid ID"]
    ELSE [data |-> id, err |-> ""]

RawIDUnmarshalJSON(data) ==
    IF ~IsValid(data) THEN [id |-> data, err |-> "invalid ID"]
    ELSE [id |-> data, err |-> ""]

(***************************************************************************)
(* Params                                                                  *)
(***************************************************************************)
ParamsMarshalJSON(p) == [data |-> p, err |-> ""]

ParamsUnmarshalJSON(data) ==
    IF Len(data) = 0 THEN [p |-> <<>>, err |-> "invalid JSON, empty input"]
    ELSE IF data[1] # "[" /\ data[1] # "{"
         THEN [p |-> <<>>, err |-> "JSON-RPC params must be list or map"]
    ELSE [p |-> data, err |-> ""]

(***************************************************************************)
(* V2                                                                      *)
(***************************************************************************)
v2Bytes == <<"2", ".", "0">>

V2MarshalText == [data |-> v2Bytes, err |-> ""]

V2UnmarshalText(data) ==
    IF Len(data) # 3 \/ data[1] # "2" \/ data[2] # "." \/ data[3] # "0"
    THEN "invalid JSON RPC version"
    ELSE ""

(***************************************************************************)
(* encoding/json conversions used by the struct fields                     *)
(***************************************************************************)
HTMLChars == {"<", ">", "&"}

HTMLEscape(c) ==
    <<"\\", "u", "0", "0">> \o
    (IF c = "<" THEN <<"3", "c">> ELSE IF c = ">" THEN <<"3", "e">> ELSE <<"2", "6">>)

RECURSIVE CompactFrom(_, _, _)
\* output of a Marshaler is copied without insignificant white space and
\* with the HTML characters escaped
CompactFrom(s, i, inStr) ==
    LET c == At(s, i)
    IN  IF c = "" THEN <<>>
        ELSE IF inStr THEN
            IF c = "\\" THEN <<c, At(s, i + 1)>> \o CompactFrom(s, i + 2, TRUE)
            ELSE IF c = "\"" THEN <<c>> \o CompactFrom(s, i + 1, FALSE)
            ELSE IF c \in HTMLChars THEN HTMLEscape(c) \o CompactFrom(s, i + 1, TRUE)
            ELSE <<c>> \o CompactFrom(s, i + 1, TRUE)
        ELSE IF c \in WhiteSpace THEN CompactFrom(s, i + 1, FALSE)
        ELSE IF c = "\"" THEN <<c>> \o CompactFrom(s, i + 1, TRUE)
        ELSE <<c>> \o CompactFrom(s, i + 1, FALSE)

\* what json.Marshal writes for a value whose MarshalJSON returned b
MarshalerOutput(b) ==
    IF ~JSONValid(b) THEN [data |-> <<>>, err |-> "json: error calling MarshalJSON"]
    ELSE [data |-> CompactFrom(b, 1, FALSE), err |-> ""]

RECURSIVE QuoteFrom(_, _)
\* bytes that need no escape are copied up to the next one that does
QuoteFrom(s, i) ==
    LET j == Min({k \in i..(Len(s) + 1) :
                    At(s, k) \in {"", "\"", "\\"} \cup ControlChars \cup HTMLChars})
        c == At(s, j)
    IN  SubSeq(s, i, j - 1) \o
        (IF c = "" THEN <<"\"">>
         ELSE (IF c = "\"" \/ c = "\\" THEN <<"\\", c>>
               ELSE IF c = "\n" THEN <<"\\", "n">>
               ELSE IF c = "\r" THEN <<"\\", "r">>
               ELSE IF c = "\t" THEN <<"\\", "t">>
               ELSE HTMLEscape(c)) \o QuoteFrom(s, j + 1))

\* a Go string as a JSON string literal
Quote(s) == <<"\"">> \o QuoteFrom(s, 1)

UnescapeU(h) ==
    IF h = <<"0", "0", "3", "c">> \/ h = <<"0", "0", "3", "C">> THEN "<"
    ELSE IF h = <<"0", "0", "3", "e">> \/ h = <<"0", "0", "3", "E">> THEN ">"
    ELSE IF h = <<"0", "0", "2", "6">> THEN "&"
    ELSE IF h = <<"0", "0", "0", "a">> \/ h = <<"0", "0", "0", "A">> THEN "\n"
    ELSE IF h = <<"0", "0", "0", "9">> THEN "\t"
    ELSE "?"   \* other code points do not occur in the inputs of this model

RECURSIVE UnquoteFrom(_, _)
\* plain bytes are copied up to the next backslash or the closing quote
UnquoteFrom(s, i) ==
    LET j == Min({k \in i..(Len(s) + 1) : At(s, k) \in {"", "\"", "\\"}})
        c == At(s, j)
    IN  SubSeq(s, i, j - 1) \o
        (IF c # "\\" THEN <<>>
         ELSE LET e == At(s, j + 1)
              IN  IF e = "u"
                  THEN <<UnescapeU(SubSeq(s, j + 2, j + 5))>> \o UnquoteFrom(s, j + 6)
                  ELSE <<(IF e = "n" THEN "\n" ELSE IF e = "r" THEN "\r"
                          ELSE IF e = "t" THEN "\t" ELSE e)>> \o UnquoteFrom(s, j + 2))

\* the Go string a valid JSON string literal denotes
Unquote(s) == UnquoteFrom(s, 2)

DigitVal(c) == CHOOSE n \in 0..9 : <<"0", "1", "2", "3", "4", "5", "6", "7", "8", "9">>[n + 1] = c

RECURSIVE DigitsVal(_, _, _)
DigitsVal(s, i, acc) ==
    IF i > Len(s) THEN acc ELSE DigitsVal(s, i + 1, acc * 10 + DigitVal(s[i]))

\* a JSON number token is an int64 only when it has no fraction or exponent
IsIntToken(s) ==
    LET j == IF At(s, 1) = "-" THEN 2 ELSE 1
    IN  j <= Len(s) /\ \A k \in j..Len(s) : s[k] \in Digits

ParseInt(s) ==
    IF At(s, 1) = "-" THEN 0 - DigitsVal(s, 2, 0) ELSE DigitsVal(s, 1, 0)

RECURSIVE FormatNat(_)
FormatNat(n) ==
    LET d == <<"0", "1", "2", "3", "4", "5", "6", "7", "8", "9">>[(n % 10) + 1]
    IN  IF n < 10 THEN <<d>> ELSE FormatNat(n \div 10) \o <<d>>

FormatInt(n) == IF n < 0 THEN <<"-">> \o FormatNat(0 - n) ELSE FormatNat(n)


(***************************************************************************)
(* Request, ErrorObject, Response, Message, jsonMessage                    *)
(*   Request     == [Method : bytes, Params : bytes]                       *)
(*   ErrorObject == [Code : Int, Message : bytes, Data : bytes]            *)
(*   Response    == [Result : pointer to bytes, Error : pointer to         *)
(*                   ErrorObject]                                          *)
(*   Message     == [Request : pointer, Response : pointer, ID : bytes]    *)
(* jsonMessage has the same three fields and the data-less JSONRPC marker. *)
(*                                                                         *)
(* On the wire:                                                            *)
(*   [jsonrpc, id, method, params, result : raw token,                     *)
(*    error : <<>> or <<[kind, code, message, data]>>]                     *)
(* with kind "null", "object" or "other" (any non-object, non-null value). *)
(***************************************************************************)
NoErrorMember == <<>>

NewErrorObject == [Code |-> 0, Message |-> <<>>, Data |-> <<>>]
NewResponse == [Result |-> <<>>, Error |-> <<>>]

IsStringToken(t) == At(t, 1) = "\""
IsNumberToken(t) == At(t, 1) = "-" \/ At(t, 1) \in Digits

\* the syntax pass of json.Unmarshal over the whole input
checkValid(w) ==
    /\ \A f \in {"jsonrpc", "id", "method", "params", "result"} :
          w[f] = <<>> \/ JSONValid(w[f])
    /\ w.error # <<>> /\ w.error[1].kind = "object" =>
          \A f \in {"code", "message", "data"} :
             w.error[1][f] = <<>> \/ JSONValid(w.error[1][f])

\* decoding of the "error" member into the *ErrorObject field
UnmarshalErrorObject(t) ==
    IF t.kind = "null" THEN [p |-> <<>>, err |-> ""]
    ELSE IF t.kind # "object"
         THEN [p |-> <<>>, err |-> "json: cannot unmarshal into ErrorObject"]
    ELSE LET codeErr == t.code # <<>> /\ t.code # NullBytes /\ ~IsIntToken(t.code)
             msgErr  == t.message # <<>> /\ t.message # NullBytes /\ ~IsStringToken(t.message)
             code    == IF t.code = <<>> \/ t.code = NullBytes \/ codeErr
                        THEN 0 ELSE ParseInt(t.code)
             msg     == IF IsStringToken(t.message) THEN Unquote(t.message) ELSE <<>>
         IN  [p   |-> <<[Code |-> code, Message |-> msg, Data |-> t.data]>>,
              err |-> IF codeErr THEN "json: cannot unmarshal into ErrorObject.code"
                      ELSE IF msgErr THEN "json: cannot unmarshal into ErrorObject.message"
                      ELSE ""]

\* json.Unmarshal(data, &dest) for dest of type jsonMessage
jsonUnmarshal(w) ==
    IF ~checkValid(w) THEN [dest |-> [Request |-> <<>>, Response |-> <<>>, ID |-> <<>>],
                            err |-> "invalid character"]
    ELSE
    LET \* JSONRPC V2 `json:"jsonrpc"`: a text unmarshaler, fed a JSON string only
        eVersion == IF w.jsonrpc = <<>> \/ w.jsonrpc = NullBytes THEN ""
                    ELSE IF ~IsStringToken(w.jsonrpc) THEN "json: cannot unmarshal into V2"
                    ELSE V2UnmarshalText(Unquote(w.jsonrpc))
        \* ID RawID `json:"id,omitempty"`
        rID == IF w.id = <<>> THEN [id |-> <<>>, err |-> ""] ELSE RawIDUnmarshalJSON(w.id)
        \* Method string `json:"method"`
        eMethod == IF w.method = <<>> \/ w.method = NullBytes \/ IsStringToken(w.method)
                   THEN "" ELSE "json: cannot unmarshal into Request.method"
        method  == IF IsStringToken(w.method) THEN Unquote(w.method) ELSE <<>>
        \* Params Params `json:"params,omitempty"`
        rParams == IF w.params = <<>> THEN [p |-> <<>>, err |-> ""]
                   ELSE ParamsUnmarshalJSON(w.params)
        \* Result *json.RawMessage `json:"result,omitempty"`: null leaves the pointer nil
        result == IF w.result = <<>> \/ w.result = NullBytes THEN <<>> ELSE <<w.result>>
        \* Error *ErrorObject `json:"error,omitempty"`
        rError == IF w.error = <<>> THEN [p |-> <<>>, err |-> ""]
                  ELSE UnmarshalErrorObject(w.error[1])
        \* an embedded pointer is allocated as soon as one of its members is met
        request  == IF w.method = <<>> /\ w.params = <<>> THEN <<>>
                    ELSE <<[Method |-> method, Params |-> rParams.p]>>
        response == IF w.result = <<>> /\ w.error = <<>> THEN <<>>
                    ELSE <<[Result |-> result, Error |-> rError.p]>>
        err == IF eVersion # "" THEN eVersion
               ELSE IF rID.err # "" THEN rID.err
               ELSE IF eMethod # "" THEN eMethod
               ELSE IF rParams.err # "" THEN rParams.err
               ELSE rError.err
    IN  [dest |-> [Request |-> request, Response |-> response, ID |-> rID.id],
         err |-> err]

\* encoding of the *ErrorObject field
MarshalErrorObject(e) ==
    LET rData == IF e.Data = <<>> THEN [data |-> <<>>, err |-> ""] ELSE MarshalerOutput(e.Data)
    IN  [tok |-> [kind |-> "object", code |-> FormatInt(e.Code),
                  message |-> Quote(e.Message), data |-> rData.data],
         err |-> rData.err]

\* the one element of a singleton set: The({F(x) : x \in {e}}) is F(e) with e
\* evaluated once
The(S) == CHOOSE x \in S : TRUE

\* Params Params `json:"params,omitempty"`
MarshalParams(out) ==
    IF out.Request # <<>> /\ out.Request[1].Params # <<>>
    THEN MarshalerOutput(ParamsMarshalJSON(out.Request[1].Params).data)
    ELSE [data |-> <<>>, err |-> ""]

\* Result *json.RawMessage `json:"result,omitempty"`: a nil RawMessage behind
\* a non-nil pointer is written as null
MarshalResult(out) ==
    IF out.Response # <<>> /\ out.Response[1].Result # <<>>
    THEN (IF out.Response[1].Result[1] = <<>>
          THEN [data |-> NullBytes, err |-> ""]
          ELSE MarshalerOutput(out.Response[1].Result[1]))
    ELSE [data |-> <<>>, err |-> ""]

\* Error *ErrorObject `json:"error,omitempty"`
MarshalError(out) ==
    IF out.Response # <<>> /\ out.Response[1].Error # <<>>
    THEN The({[data |-> <<r.tok>>, err |-> r.err] :
                 r \in {MarshalErrorObject(out.Response[1].Error[1])}})
    ELSE [data |-> NoErrorMember, err |-> ""]

\* ID RawID `json:"id,omitempty"`
MarshalID(out) ==
    IF out.ID = <<>> THEN [data |-> <<>>, err |-> ""]
    ELSE The({IF r.err # "" THEN r ELSE MarshalerOutput(r.data) :
                 r \in {RawIDMarshalJSON(out.ID)}})

\* json.Marshal(&out) for out of type jsonMessage: nil bytes on any error
jsonMarshal(out) ==
    The({IF rParams.err # "" THEN [data |-> <<>>, err |-> rParams.err]
         ELSE IF rResult.err # "" THEN [data |-> <<>>, err |-> rResult.err]
         ELSE IF rError.err # "" THEN [data |-> <<>>, err |-> rError.err]
         ELSE IF rID.err # "" THEN [data |-> <<>>, err |-> rID.err]
         ELSE [data |-> <<[jsonrpc |-> Quote(V2MarshalText.data),
                           id      |-> rID.data,
                           method  |-> IF out.Request # <<>>
                                       THEN Quote(out.Request[1].Method) ELSE <<>>,
                           params  |-> rParams.data,
                           result  |-> rResult.data,
                           error   |-> rError.data]>>,
               err |-> ""] :
            rParams \in {MarshalParams(out)}, rResult \in {MarshalResult(out)},
            rError \in {MarshalError(out)}, rID \in {MarshalID(out)}})

\* Check without the notification test
CheckNoNotificationTest(m) ==
    IF m.Response # <<>> THEN
        IF m.Request # <<>>
        THEN "message must be either a request or response, but not both"
        ELSE ""
    ELSE IF m.Request = <<>> THEN "message must be either a request or response"
    ELSE ""

\* Check without the request-and-response test
CheckNoBothTest(m) ==
    IF m.Response # <<>> THEN
        IF IsNotification(m.ID) THEN "responses cannot be notifications"
        ELSE ""
    ELSE IF m.Request = <<>> THEN "message must be either a request or response"
    ELSE ""

Check(m) ==
    IF m.Response # <<>> THEN
        IF m.Request # <<>>
        THEN "message must be either a request or response, but not both"
        ELSE IF IsNotification(m.ID) THEN "responses cannot be notifications"
        ELSE ""
    ELSE IF m.Request = <<>> THEN "message must be either a request or response"
    ELSE ""

\* returns the bytes (nil: <<>>) and the error
MessageMarshalJSON(m) ==
    The({IF r.err # "" THEN [data |-> r.data, err |-> r.err]
         ELSE [data |-> r.data,
               err |-> Check([Request |-> m.Request, Response |-> m.Response, ID |-> m.ID])] :
            r \in {jsonMarshal([Request |-> m.Request, Response |-> m.Response,
                                ID |-> m.ID])}})

\* returns the Message stored into the receiver (none: <<>>) and the error
MessageUnmarshalJSON(data) ==
    The({IF r.err # "" THEN [m |-> <<>>, err |-> r.err]
         ELSE IF Check(r.dest) # "" THEN [m |-> <<>>, err |-> Check(r.dest)]
         ELSE [m |-> <<[Request |-> r.dest.Request, Response |-> r.dest.Response,
                        ID |-> r.dest.ID]>>,
               err |-> ""] :
            r \in {jsonUnmarshal(data)}})

(***************************************************************************)
(* ErrorConst                                                              *)
(***************************************************************************)
MethodNotFound == -32601
InternalError == -32603

Code(c) == c

ErrorConstMessage(c) ==
    IF c = MethodNotFound THEN <<"M", "e", "t", "h", "o", "d", " ", "n", "o", "t", " ", "f", "o", "u", "n", "d">>
    ELSE IF c = InternalError THEN <<"I", "n", "t", "e", "r", "n", "a", "l", " ", "e", "r", "r", "o", "r">>
    ELSE <<"N", "o", "n", "-", "s", "t", "a", "n", "d", "a", "r", "d", " ", "e", "r", "r", "o", "r", "-", "c", "o", "d", "e", " ">> \o FormatInt(Code(c))

\* c < -32000 && c > -32099
IsServerError(c) == c < -32000 /\ c > -32099

ConstErrorObj(c) == [Code |-> Code(c), Message |-> ErrorConstMessage(c), Data |-> <<>>]

AnnotatedErrorObj(c, err) ==
    [Code |-> Code(c), Message |-> ErrorConstMessage(c) \o <<":", " ">> \o err, Data |-> <<>>]

(***************************************************************************)
(* Responding.  A payload is any Go value; what matters of it is what      *)
(* json.Marshal makes of it.                                               *)
(***************************************************************************)
Payloads ==
    {[kind |-> "int", n |-> i] : i \in 1..MaxPayload}
    \cup {[kind |-> "nil", n |-> 0], [kind |-> "chan", n |-> 0]}

\* json.Marshal(data): the error text as bytes, <<>> meaning nil
jsonMarshalAny(data) ==
    IF data.kind = "chan" THEN [x |-> <<>>, err |-> <<"j", "s", "o", "n", ":", " ", "u", "n", "s", "u", "p", "p", "o", "r", "t", "e", "d", " ", "t", "y", "p", "e", ":", " ", "c", "h", "a", "n", " ", "i", "n", "t">>]
    ELSE IF data.kind = "nil" THEN [x |-> NullBytes, err |-> <<>>]
    ELSE [x |-> FormatInt(data.n), err |-> <<>>]

RespondSuccess(data) ==
    LET r == jsonMarshalAny(data)
    IN  IF r.err # <<>>
        THEN [resp |-> <<>>, err |-> <<"f", "a", "i", "l", "e", "d", " ", "t", "o", " ", "e", "n", "c", "o", "d", "e", " ", "r", "e", "s", "p", "o", "n", "s", "e", ":", " ">> \o r.err]
        ELSE [resp |-> <<[Result |-> <<r.x>>, Error |-> <<>>]>>, err |-> <<>>]

\* Respond losing the failure instead of wrapping it
RespondLosesFailure(data) ==
    LET r == RespondSuccess(data)
    IN  IF r.err # <<>> THEN NewResponse ELSE r.resp[1]

Respond(data) ==
    LET r == RespondSuccess(data)
    IN  IF r.err # <<>>
        THEN [Result |-> <<>>, Error |-> <<AnnotatedErrorObj(InternalError, r.err)>>]
        ELSE r.resp[1]

MessageRespondSuccess(m, data) ==
    IF m.Response # <<>> THEN [msg |-> <<>>, err |-> "cannot respond to a response"]
    ELSE LET r == RespondSuccess(data)
         IN  IF r.err # <<>> THEN [msg |-> <<>>, err |-> "failed to encode response"]
             ELSE [msg |-> <<[Request |-> <<>>, Response |-> r.resp, ID |-> m.ID]>>,
                   err |-> ""]

\* Respond answering a Response with an internal-error Message instead of
\* panicking
MessageRespondAnswersFault(m, data) ==
    IF m.Response # <<>>
    THEN [msg |-> <<[Request |-> <<>>,
                     Response |-> <<[Result |-> <<>>,
                                     Error |-> <<ConstErrorObj(InternalError)>>]>>,
                     ID |-> m.ID]>>,
          panic |-> FALSE]
    ELSE [msg |-> <<[Request |-> <<>>, Response |-> <<Respond(data)>>, ID |-> m.ID]>>,
          panic |-> FALSE]

MessageRespond(m, data) ==
    IF m.Response # <<>> THEN [msg |-> <<>>, panic |-> TRUE]
    ELSE [msg |-> <<[Request |-> <<>>, Response |-> <<Respond(data)>>, ID |-> m.ID]>>,
          panic |-> FALSE]

\* errObj is a pointer
MessageRespondErr(m, errObj) ==
    IF m.Response # <<>> THEN [msg |-> <<>>, panic |-> TRUE]
    ELSE [msg |-> <<[Request |-> <<>>,
                     Response |-> <<[Result |-> <<>>, Error |-> errObj]>>,
                     ID |-> m.ID]>>,
          panic |-> FALSE]


(***************************************************************************)
(* ParamsDecoder.                                                          *)
(* A destination type E is                                                 *)
(*   [kind   : "struct", "slice", "string" or "int" (of the pointee when   *)
(*             E is a pointer),                                            *)
(*    ptr    : E is a pointer type,                                        *)
(*    named  : E is a defined type rather than a type literal,             *)
(*    fields : sequence of [name : bytes, type : "string" or "int",        *)
(*             exported : BOOLEAN] for a struct,                           *)
(*    elem   : "any", "string" or "int" for a slice]                       *)
(* A Go value is [t, s, n]; a destination is [alloc, vals]: alloc is FALSE *)
(* for a nil pointer or nil slice, vals holds the fields of a struct, the  *)
(* elements of a slice or the one value of a scalar.                       *)
(***************************************************************************)
StringVal(s) == [t |-> "string", s |-> s, n |-> 0]
IntVal(n) == [t |-> "int", s |-> <<>>, n |-> n]
\* json.Number keeps the literal
NumberVal(lit) == [t |-> "json.Number", s |-> lit, n |-> 0]
NilVal == [t |-> "nil", s |-> <<>>, n |-> 0]
\* bool, []any and map[string]any inside an any: kept as their text
OtherVal(raw) == [t |-> "other", s |-> raw, n |-> 0]

ZeroOf(type) ==
    IF type = "string" THEN StringVal(<<>>)
    ELSE IF type = "int" THEN IntVal(0)
    ELSE NilVal

ZeroFields(typ) == [i \in 1..Len(typ.fields) |-> ZeroOf(typ.fields[i].type)]

\* var dest E
ZeroDest(typ) ==
    IF typ.kind = "struct"
    THEN (IF typ.ptr THEN [alloc |-> FALSE, vals |-> <<>>]
          ELSE [alloc |-> TRUE, vals |-> ZeroFields(typ)])
    ELSE IF typ.kind = "slice" THEN [alloc |-> FALSE, vals |-> <<>>]
    ELSE [alloc |-> TRUE, vals |-> <<ZeroOf(typ.kind)>>]

emptyStruct ==
    [kind |-> "struct", ptr |-> FALSE, named |-> FALSE, fields |-> <<>>, elem |-> "none"]

\* bytes.TrimLeft(p, "\t\n\r ")
TrimLeft(p) == SubSeq(p, SkipWS(p, 1), Len(p))

\* json.Unmarshal of one JSON value into a variable of the given type that
\* holds old; a number inside an any is stored as json.Number (UseNumber)
UnmarshalValue(type, tok, old) ==
    IF type = "any"
    THEN [v |-> IF tok = NullBytes THEN NilVal
                ELSE IF IsStringToken(tok) THEN StringVal(Unquote(tok))
                ELSE IF IsNumberToken(tok) THEN NumberVal(tok)
                ELSE OtherVal(tok),
          err |-> ""]
    ELSE IF tok = NullBytes THEN [v |-> old, err |-> ""]
    ELSE IF type = "string" /\ IsStringToken(tok)
         THEN [v |-> StringVal(Unquote(tok)), err |-> ""]
    ELSE IF type = "int" /\ IsNumberToken(tok) /\ IsIntToken(tok)
         THEN [v |-> IntVal(ParseInt(tok)), err |-> ""]
    ELSE [v |-> old, err |-> "json: cannot unmarshal into Go value"]

RECURSIVE ArrayItems(_, _)
\* the raw elements of a valid array, i the index of the first one
ArrayItems(s, i) ==
    The({IF At(s, SkipWS(s, v)) = ","
         THEN <<SubSeq(s, i, v - 1)>> \o ArrayItems(s, SkipWS(s, SkipWS(s, v) + 1))
         ELSE <<SubSeq(s, i, v - 1)>> :
            v \in {ParseValue(s, i)}})

\* s starts with "["
TopItems(s) ==
    IF At(s, SkipWS(s, 2)) = "]" THEN <<>> ELSE ArrayItems(s, SkipWS(s, 2))

RECURSIVE ObjectMembers(_, _)
\* the members of a valid object, i the index of the first key's quote
ObjectMembers(s, i) ==
    The({IF At(s, SkipWS(s, v)) = ","
         THEN <<[key |-> Unquote(SubSeq(s, i, e - 1)),
                 val |-> SubSeq(s, SkipWS(s, SkipWS(s, e) + 1), v - 1)]>>
              \o ObjectMembers(s, SkipWS(s, SkipWS(s, v) + 1))
         ELSE <<[key |-> Unquote(SubSeq(s, i, e - 1)),
                 val |-> SubSeq(s, SkipWS(s, SkipWS(s, e) + 1), v - 1)]>> :
            e \in {ParseString(s, i + 1)},
            v \in {ParseValue(s, SkipWS(s, SkipWS(s, ParseString(s, i + 1)) + 1))}})

\* s starts with "{"
TopMembers(s) ==
    IF At(s, SkipWS(s, 2)) = "}" THEN <<>> ELSE ObjectMembers(s, SkipWS(s, 2))

UpperLetters == <<"A", "B", "C", "D", "E", "F", "G", "H", "I", "J", "K", "L", "M", "N", "O", "P", "Q", "R", "S", "T", "U", "V", "W", "X", "Y", "Z">>
LowerLetters == <<"a", "b", "c", "d", "e", "f", "g", "h", "i", "j", "k", "l", "m", "n", "o", "p", "q", "r", "s", "t", "u", "v", "w", "x", "y", "z">>

\* ASCII case folding of a key
Fold(key) ==
    [k \in 1..Len(key) |->
        IF \E u \in 1..26 : UpperLetters[u] = key[k]
        THEN LowerLetters[CHOOSE u \in 1..26 : UpperLetters[u] = key[k]]
        ELSE key[k]]

\* the index of the exported field a key names: an exact match first, then
\* one that differs in case only; 0 when there is none
FieldFor(typ, key) ==
    LET exact == {i \in 1..Len(typ.fields) :
                    typ.fields[i].exported /\ typ.fields[i].name = key}
        folded == {i \in 1..Len(typ.fields) :
                    typ.fields[i].exported /\ Fold(typ.fields[i].name) = Fold(key)}
    IN  IF exact # {} THEN Min(exact) ELSE IF folded # {} THEN Min(folded) ELSE 0

RECURSIVE StoreMembers(_, _, _, _)
\* the members are stored in wire order; the first type error is kept and
\* decoding goes on
StoreMembers(typ, mems, i, acc) ==
    IF i > Len(mems) THEN acc
    ELSE The({IF f = 0 THEN StoreMembers(typ, mems, i + 1, acc)
              ELSE The({StoreMembers(typ, mems, i + 1,
                            [vals |-> [acc.vals EXCEPT ![f] = r.v],
                             err  |-> IF acc.err = "" THEN r.err ELSE acc.err]) :
                          r \in {UnmarshalValue(typ.fields[f].type, mems[i].val,
                                                acc.vals[f])}}) :
                 f \in {FieldFor(typ, mems[i].key)}})

\* json.Unmarshal(p, &dest) for a struct or pointer to struct, p starting
\* with "{"
UnmarshalStruct(typ, p) ==
    IF ~JSONValid(p) THEN [dest |-> ZeroDest(typ), err |-> "json: syntax error", panic |-> FALSE]
    ELSE The({[dest |-> [alloc |-> TRUE, vals |-> r.vals], err |-> r.err, panic |-> FALSE] :
                 r \in {StoreMembers(typ, TopMembers(p), 1,
                                     [vals |-> ZeroFields(typ), err |-> ""])}})

\* dec.UseNumber(); dec.Decode(&dest) for a slice, p starting with "[": the
\* decoder reads one value and leaves what follows it
DecodeSlice(typ, p) ==
    IF ParseValue(p, 1) = -1
    THEN [dest |-> ZeroDest(typ), err |-> "json: syntax error", panic |-> FALSE]
    ELSE The({[dest  |-> [alloc |-> TRUE, vals |-> [i \in 1..Len(rs) |-> rs[i].v]],
               err   |-> IF \E i \in 1..Len(rs) : rs[i].err # ""
                         THEN "json: cannot unmarshal into Go value" ELSE "",
               panic |-> FALSE] :
                 rs \in {[i \in 1..Len(items) |->
                             UnmarshalValue(typ.elem, items[i], ZeroOf(typ.elem))] :
                         items \in {TopItems(SubSeq(p, 1, ParseValue(p, 1) - 1))}}})

\* json.Unmarshal(p, &dest) for a destination that is neither slice nor
\* struct
UnmarshalScalar(typ, p) ==
    IF ~JSONValid(p) THEN [dest |-> ZeroDest(typ), err |-> "json: syntax error", panic |-> FALSE]
    ELSE The({[dest |-> [alloc |-> TRUE, vals |-> <<r.v>>], err |-> r.err, panic |-> FALSE] :
                 r \in {UnmarshalValue(typ.kind, SubSeq(p, 1, ParseValue(p, 1) - 1),
                                       ZeroOf(typ.kind))}})

\* the positional binding without the count test: missing elements leave
\* their fields at zero and extra elements are dropped
DecodeListIntoStructPadding(typ, p) ==
    IF ~JSONValid(p) THEN [dest |-> ZeroDest(typ), err |-> "json: syntax error", panic |-> FALSE]
    ELSE The({[dest  |-> [alloc |-> TRUE,
                          vals |-> [i \in 1..Len(typ.fields) |->
                                       IF i <= Len(items)
                                       THEN UnmarshalValue(typ.fields[i].type, items[i],
                                                           ZeroOf(typ.fields[i].type)).v
                                       ELSE ZeroOf(typ.fields[i].type)]],
               err   |-> "",
               panic |-> FALSE] :
                 items \in {TopItems(p)}})

\* case '[' of a struct destination: the elements are bound to the fields
\* by position.  Interface() panics on a field that is not exported.
DecodeListIntoStruct(typ, p) ==
    IF ~JSONValid(p) THEN [dest |-> ZeroDest(typ), err |-> "json: syntax error", panic |-> FALSE]
    ELSE The({IF Len(typ.fields) # Len(items)
              THEN [dest  |-> [alloc |-> TRUE, vals |-> ZeroFields(typ)],
                    err   |-> "expected %d params, got %d params",
                    panic |-> FALSE]
              ELSE IF \E i \in 1..Len(items) : ~typ.fields[i].exported
              THEN [dest  |-> [alloc |-> TRUE, vals |-> ZeroFields(typ)],
                    err   |-> "",
                    panic |-> TRUE]
              ELSE The({[dest  |-> [alloc |-> TRUE,
                                    vals |-> [i \in 1..Len(rs) |-> rs[i].v]],
                         err   |-> IF \E i \in 1..Len(rs) : rs[i].err # ""
                                   THEN "failed to decode field" ELSE "",
                         panic |-> FALSE] :
                           rs \in {[i \in 1..Len(items) |->
                                       UnmarshalValue(typ.fields[i].type, items[i],
                                                      ZeroOf(typ.fields[i].type))]}}) :
                 items \in {TopItems(p)}})

\* case reflect.Slice returning without an error for named params
SliceCaseObjectIgnored(typ, p) ==
    IF p[1] = "{" THEN [dest |-> ZeroDest(typ), err |-> "", panic |-> FALSE]
    ELSE IF p[1] = "[" THEN DecodeSlice(typ, p)
    ELSE [dest |-> ZeroDest(typ), err |-> "invalid params", panic |-> FALSE]

\* case reflect.Slice
SliceCase(typ, p) ==
    IF p[1] = "{"
    THEN [dest |-> ZeroDest(typ), err |-> "cannot decode named RPC params into list",
          panic |-> FALSE]
    ELSE IF p[1] = "[" THEN DecodeSlice(typ, p)
    ELSE [dest |-> ZeroDest(typ), err |-> "invalid params", panic |-> FALSE]

\* case reflect.Struct
StructCase(typ, p) ==
    IF p[1] = "{" THEN UnmarshalStruct(typ, p)
    ELSE IF p[1] = "[" THEN DecodeListIntoStruct(typ, p)
    ELSE [dest |-> ZeroDest(typ), err |-> "invalid params", panic |-> FALSE]

\* empty params accepted for every struct without fields
AcceptsEmptyAnyFieldless(typ) == typ.kind = "struct" /\ ~typ.ptr /\ typ.fields = <<>>

\* typ == emptyStruct
AcceptsEmpty(typ) == typ = emptyStruct

\* the function ParamsDecoder[E]() returns, applied to params
ParamsDecoder(typ, params) ==
    The({IF Len(p) = 0
         THEN [dest  |-> ZeroDest(typ),
               err   |-> IF AcceptsEmpty(typ) THEN "" ELSE "empty params data",
               panic |-> FALSE]
         ELSE IF typ.kind = "slice" THEN SliceCase(typ, p)
         ELSE IF typ.kind = "struct" THEN StructCase(typ, p)
         ELSE UnmarshalScalar(typ, p) :
            p \in {TrimLeft(params)}})

(***************************************************************************)
(* Inputs                                                                  *)
(***************************************************************************)
VersionTokens == {<<>>, <<"\"", "2", ".", "0", "\"">>, <<"\"", "1", ".", "0", "\"">>, NullBytes, <<"2", ".", "0">>}
IDTokens == {<<>>, <<"1">>, <<"\"", "a", "\"">>, NullBytes, <<"1", ".", "5">>}
MethodTokens == {<<>>, <<"\"", "s", "u", "m", "\"">>, <<"1">>, NullBytes}
ParamsTokens == {<<>>, <<"[", "1", ",", "2", "]">>, <<"[", "1", ",", " ", "2", "]">>, <<"{", "\"", "a", "\"", ":", "1", "}">>, <<"\"", "b", "a", "r", "\"">>, <<"[", "1">>}
ResultTokens == {<<>>, <<"1", "9">>, NullBytes}
ErrorTokens ==
    {NoErrorMember,
     <<[kind |-> "null", code |-> <<>>, message |-> <<>>, data |-> <<>>]>>,
     <<[kind |-> "other", code |-> <<>>, message |-> <<>>, data |-> <<>>]>>,
     <<[kind |-> "object", code |-> <<"-", "3", "2", "6", "0", "1">>, message |-> <<"\"", "M", "e", "t", "h", "o", "d", " ", "n", "o", "t", " ", "f", "o", "u", "n", "d", "\"">>, data |-> <<>>]>>,
     <<[kind |-> "object", code |-> <<"-", "3", "2", "0", "0", "0">>, message |-> <<"\"", "a", "<", "b", "\"">>, data |-> <<"{", "\"", "a", "\"", ":", " ", "1", "}">>]>>,
     <<[kind |-> "object", code |-> <<"1", ".", "5">>, message |-> <<"\"", "x", "\"">>, data |-> <<>>]>>}

Wires ==
    [jsonrpc : VersionTokens, id : IDTokens, method : MethodTokens,
     params : ParamsTokens, result : ResultTokens, error : ErrorTokens]

\* Messages an application can put together itself
BuiltMessages ==
    [Request  : {<<>>, <<[Method |-> <<"s", "u", "m">>, Params |-> <<"[", "1", ",", "2", "]">>]>>},
     Response : {<<>>, <<NewResponse>>,
                 <<[Result |-> <<<<"1", "9">>>>, Error |-> <<>>]>>,
                 <<[Result |-> <<<<"1", "9">>>>, Error |-> <<ConstErrorObj(MethodNotFound)>>]>>},
     ID       : {<<>>, <<"1">>, <<"1", ".", "5">>, <<"0", "1">>}]

\* nil or a catalog error object
ErrorObjects == {<<>>, <<ConstErrorObj(MethodNotFound)>>, <<ConstErrorObj(InternalError)>>}

IDAlphabet == {"0", "9", "\"", "\\", " ", "-", ".", "e", "a", "[", "n", "\n"}

IDInputs ==
    {<<>>, NullBytes, <<"t", "r", "u", "e">>, <<"f", "a", "l", "s", "e">>, <<"[", "1", "]">>, <<"{", "}">>, <<"1", "e", "9">>, <<"+", "1">>, <<"1", "2", "3", "4", "5">>,
     <<"\"", "a", " ", "b", "\"">>, <<"\"", "a", "\\", "\"", "b", "\"">>, <<"\"", "a", "\\", "u", "0", "0", "3", "c", "b", "\"">>, <<"\"", "a", "\"", "b", "\"">>, <<"\"", "a", "b", "\\", "\"">>, <<"\"", "a", "\"", " ">>, <<"0", "x", "1", "f">>, <<"n", "u", "l", "l", " ">>}
    \cup UNION {[1..n -> IDAlphabet] : n \in 1..MaxShortID}
    \cup {Rep("7", n) : n \in 60..MaxIDLen}
    \cup {<<"\"">> \o Rep("f", n - 2) \o <<"\"">> : n \in 60..MaxIDLen}
    \cup {<<"\"">> \o Rep("f", n - 1) : n \in 60..MaxIDLen}

\* the JSON values a wire array is made of
ElemTokens == {<<"\"", "h", "e", "l", "l", "o", "\"">>, <<"1", "2", "3", "4">>, <<"n", "u", "l", "l">>, <<"t", "r", "u", "e">>}

RECURSIVE JoinItems(_, _)
JoinItems(elems, i) ==
    IF i > Len(elems) THEN <<>>
    ELSE IF i = Len(elems) THEN elems[i]
    ELSE elems[i] \o <<",", " ">> \o JoinItems(elems, i + 1)

\* the text of the array with the given elements
ArrayText(elems) == <<"[">> \o JoinItems(elems, 1) \o <<"]">>

\* params handed to a decoder, with the shape they were written in; elems
\* are the elements of an array
WireArrays ==
    {[text |-> ArrayText(e), shape |-> "array", elems |-> e] :
        e \in UNION {[1..n -> ElemTokens] : n \in 0..(MaxFields + 1)}}
    \cup {[text |-> <<" ", "\n">> \o ArrayText(e), shape |-> "array", elems |-> e] :
            e \in UNION {[1..n -> ElemTokens] : n \in 0..1}}

WireObjects ==
    {[text |-> <<"{", "\"", "f", "o", "o", "\"", ":", " ", "\"", "h", "e", "l", "l", "o", "\"", ",", " ", "\"", "b", "a", "r", "\"", ":", " ", "1", "2", "3", "4", "}">>, shape |-> "object", elems |-> <<>>],
     [text |-> <<"{", "\"", "b", "a", "r", "\"", ":", " ", "1", "2", "3", "4", "}">>, shape |-> "object", elems |-> <<>>],
     [text |-> <<"{", "}">>, shape |-> "object", elems |-> <<>>],
     [text |-> <<"{", "\"", "f", "o", "o", "\"", ":", " ", "9", "0", "0", "0", ",", " ", "\"", "b", "a", "r", "\"", ":", " ", "1", "2", "3", "4", "}">>, shape |-> "object", elems |-> <<>>],
     [text |-> <<"{", "\"", "B", "a", "r", "\"", ":", " ", "1", "2", "3", "4", "}">>, shape |-> "object", elems |-> <<>>],
     [text |-> <<"{", "\"", "f", "o", "o", "\"", ":", " ", "\"", "h", "e", "l", "l", "o", "\"", "}">>, shape |-> "object", elems |-> <<>>],
     [text |-> <<" ", "\n", "{", "\"", "f", "o", "o", "\"", ":", " ", "\"", "h", "e", "l", "l", "o", "\"", "}">>, shape |-> "object", elems |-> <<>>],
     [text |-> <<"{", "\"", "f", "o", "o", "\"">>, shape |-> "object", elems |-> <<>>],
     [text |-> <<"{", "\"", "z", "z", "z", "\"", ":", " ", "t", "r", "u", "e", ",", " ", "\"", "f", "o", "o", "\"", ":", " ", "n", "u", "l", "l", "}">>, shape |-> "object", elems |-> <<>>]}

EmptyParams ==
    {[text |-> <<>>, shape |-> "empty", elems |-> <<>>],
     [text |-> <<" ">>, shape |-> "empty", elems |-> <<>>],
     [text |-> <<"\t", "\n", "\r", " ">>, shape |-> "empty", elems |-> <<>>]}

OtherParams ==
    {[text |-> <<"\"", "\"">>, shape |-> "scalar", elems |-> <<>>],
     [text |-> <<"\"", "h", "e", "l", "l", "o", " ", "w", "o", "r", "l", "d", "\"">>, shape |-> "scalar", elems |-> <<>>],
     [text |-> <<"1", "2", "3", "4">>, shape |-> "scalar", elems |-> <<>>],
     [text |-> <<"n", "u", "l", "l">>, shape |-> "scalar", elems |-> <<>>],
     [text |-> <<"1", ".", "5">>, shape |-> "scalar", elems |-> <<>>],
     [text |-> <<"[", "\"">>, shape |-> "junk", elems |-> <<>>],
     [text |-> <<"[", "1", "2", "3", "4", "]", " ", "x">>, shape |-> "junk", elems |-> <<>>],
     [text |-> <<"[", "1", "2", "3", "4", ",", "]">>, shape |-> "junk", elems |-> <<>>]}

ParamsInputs == WireArrays \cup WireObjects \cup EmptyParams \cup OtherParams

FieldNames == <<<<"f", "o", "o">>, <<"b", "a", "r">>, <<"b", "a", "z">>, <<"q", "u", "x">>>>

\* struct types of up to MaxFields string or int fields, all exported or
\* all but one; the field-less ones both as struct{} and as a defined type
StructTypes ==
    {[kind |-> "struct", ptr |-> b, named |-> nm, elem |-> "none",
      fields |-> [i \in 1..Len(ft) |->
                     [name |-> FieldNames[i], type |-> ft[i], exported |-> i # u]]] :
        b \in BOOLEAN, nm \in BOOLEAN, u \in 0..MaxFields,
        ft \in UNION {[1..n -> {"string", "int"}] : n \in 0..MaxFields}}

SliceTypes ==
    {[kind |-> "slice", ptr |-> b, named |-> FALSE, elem |-> e, fields |-> <<>>] :
        b \in BOOLEAN, e \in {"any", "string", "int"}}

ScalarTypes ==
    {[kind |-> k, ptr |-> FALSE, named |-> FALSE, elem |-> "none", fields |-> <<>>] :
        k \in {"string", "int"}}

DestTypes == StructTypes \cup SliceTypes \cup ScalarTypes

\* the codes of the catalog, the codes around the server-error band and
\* two codes far from it
CodeInputs ==
    ((-32099 - CodeMargin)..(-32000 + CodeMargin))
    \cup {-32700, -32600, -32601, -32602, -32603, 4001, 4100, 4200, 4900, 4901}
    \cup {0, 999999}

(***************************************************************************)
(* State                                                                   *)
(*   input     the bytes last handed to Message decode (pointer)           *)
(*   m         the Message the caller holds (pointer), decoded or built    *)
(*   origin    "none", "decoded" or "built"                                *)
(*   err       error of the call that produced m                           *)
(*   resp      Message returned by the last Respond* call on m (pointer)   *)
(*   respBy    which call that was, arg its payload (pointer)              *)
(*   respErr   error returned by RespondSuccess, panicked: the call        *)
(*             panicked                                                    *)
(*   enc       bytes and error returned by the last MarshalJSON call,      *)
(*             encOf whether it encoded m or resp                          *)
(*   m2, err2  result of decoding the bytes in enc, once redecoded         *)
(*   idArg, idOk, idChecked   argument and result of RawID validation      *)
(*   typ, params   destination type and params of a ParamsDecoder call     *)
(*             (pointers), dest, decErr its results, decPanicked: the call *)
(*             panicked, decDone: the call was made                        *)
(*   code, isServer, codeChecked   receiver and result of IsServerError    *)
(***************************************************************************)
VARIABLES input, m, origin, err, resp, respBy, arg, respErr, panicked,
          enc, encOf, m2, err2, redecoded, idArg, idOk, idChecked,
          typ, params, dest, decErr, decPanicked, decDone,
          code, isServer, codeChecked

vars == <<input, m, origin, err, resp, respBy, arg, respErr, panicked,
          enc, encOf, m2, err2, redecoded, idArg, idOk, idChecked,
          typ, params, dest, decErr, decPanicked, decDone,
          code, isServer, codeChecked>>

msgVars == <<input, m, origin, err>>
respVars == <<resp, respBy, arg, respErr, panicked>>
encVars == <<enc, encOf, m2, err2, redecoded>>
idVars == <<idArg, idOk, idChecked>>
decVars == <<typ, params, dest, decErr, decPanicked, decDone>>
codeVars == <<code, isServer, codeChecked>>

NoEnc == [data |-> <<>>, err |-> ""]

Blank ==
    /\ err = ""
    /\ resp = <<>> /\ respBy = "none" /\ arg = <<>> /\ respErr = "" /\ panicked = FALSE
    /\ enc = NoEnc /\ encOf = "none" /\ m2 = <<>> /\ err2 = "" /\ redecoded = FALSE
    /\ idOk = FALSE /\ idChecked = FALSE
    /\ dest = <<>> /\ decErr = "" /\ decPanicked = FALSE /\ decDone = FALSE
    /\ isServer = FALSE /\ codeChecked = FALSE

\* the caller holds either bytes it received or a Message it put together
Init ==
    /\ \/ input \in {<<w>> : w \in Wires} /\ m = <<>> /\ origin = "none"
       \/ input = <<>> /\ m \in {<<b>> : b \in BuiltMessages} /\ origin = "built"
    /\ idArg = <<>>
    /\ typ = <<>> /\ params = <<>>
    /\ code = 0
    /\ Blank

\* the caller holds a candidate identifier
InitID ==
    /\ input = <<>> /\ m = <<>> /\ origin = "none"
    /\ idArg \in IDInputs
    /\ typ = <<>> /\ params = <<>>
    /\ code = 0
    /\ Blank

\* the caller holds a decoder for a destination type and params to decode
InitParams ==
    /\ input = <<>> /\ m = <<>> /\ origin = "none"
    /\ idArg = <<>>
    /\ typ \in {<<t>> : t \in DestTypes}
    /\ params \in {<<p>> : p \in ParamsInputs}
    /\ code = 0
    /\ Blank

\* the caller holds an error code
InitCode ==
    /\ input = <<>> /\ m = <<>> /\ origin = "none"
    /\ idArg = <<>>
    /\ typ = <<>> /\ params = <<>>
    /\ code \in CodeInputs
    /\ Blank

ResetEnc ==
    /\ enc' = NoEnc /\ encOf' = "none" /\ m2' = <<>> /\ err2' = "" /\ redecoded' = FALSE

\* var m Message; err := m.UnmarshalJSON(input)
Decode ==
    /\ input # <<>> /\ origin = "none"
    /\ \E r \in {MessageUnmarshalJSON(input[1])} :
          /\ m' = r.m
          /\ err' = r.err
          /\ origin' = IF r.err = "" THEN "decoded" ELSE "rejected"
    /\ UNCHANGED <<input, respVars, encVars, idVars, decVars, codeVars>>

\* m.MarshalJSON()
Encode ==
    /\ m # <<>>
    /\ enc' = MessageMarshalJSON(m[1])
    /\ encOf' = "m"
    /\ m2' = <<>> /\ err2' = "" /\ redecoded' = FALSE
    /\ UNCHANGED <<msgVars, respVars, idVars, decVars, codeVars>>

\* resp.MarshalJSON() on the Message a Respond* call returned
EncodeResponse ==
    /\ resp # <<>>
    /\ enc' = MessageMarshalJSON(resp[1])
    /\ encOf' = "resp"
    /\ m2' = <<>> /\ err2' = "" /\ redecoded' = FALSE
    /\ UNCHANGED <<msgVars, respVars, idVars, decVars, codeVars>>

\* var m2 Message; err2 := m2.UnmarshalJSON(out), after encoding m without error
Redecode ==
    /\ encOf = "m" /\ enc.err = "" /\ enc.data # <<>> /\ ~redecoded
    /\ \E r \in {MessageUnmarshalJSON(enc.data[1])} : m2' = r.m /\ err2' = r.err
    /\ redecoded' = TRUE
    /\ UNCHANGED <<msgVars, respVars, enc, encOf, idVars, decVars, codeVars>>

\* resp, err := m.RespondSuccess(data)
CallRespondSuccess(data) ==
    /\ m # <<>>
    /\ \E r \in {MessageRespondSuccess(m[1], data)} : resp' = r.msg /\ respErr' = r.err
    /\ respBy' = "RespondSuccess" /\ arg' = <<data>> /\ panicked' = FALSE
    /\ ResetEnc
    /\ UNCHANGED <<msgVars, idVars, decVars, codeVars>>

\* resp := m.Respond(data)
CallRespond(data) ==
    /\ m # <<>>
    /\ \E r \in {MessageRespond(m[1], data)} : resp' = r.msg /\ panicked' = r.panic
    /\ respBy' = "Respond" /\ arg' = <<data>> /\ respErr' = ""
    /\ ResetEnc
    /\ UNCHANGED <<msgVars, idVars, decVars, codeVars>>

\* resp := m.RespondErr(errObj)
CallRespondErr(errObj) ==
    /\ m # <<>>
    /\ \E r \in {MessageRespondErr(m[1], errObj)} : resp' = r.msg /\ panicked' = r.panic
    /\ respBy' = "RespondErr" /\ arg' = <<>> /\ respErr' = ""
    /\ ResetEnc
    /\ UNCHANGED <<msgVars, idVars, decVars, codeVars>>

\* idArg.IsValid()
ValidateID ==
    /\ ~idChecked
    /\ idOk' = IsValid(idArg)
    /\ idChecked' = TRUE
    /\ UNCHANGED <<idArg, msgVars, respVars, encVars, decVars, codeVars>>

\* dest, err := ParamsDecoder[E]()(params)
CallParamsDecoder ==
    /\ typ # <<>> /\ ~decDone
    /\ \E r \in {ParamsDecoder(typ[1], params[1].text)} :
          dest' = <<r.dest>> /\ decErr' = r.err /\ decPanicked' = r.panic
    /\ decDone' = TRUE
    /\ UNCHANGED <<typ, params, msgVars, respVars, encVars, idVars, codeVars>>

\* code.IsServerError()
CallIsServerError ==
    /\ ~codeChecked
    /\ isServer' = IsServerError(code)
    /\ codeChecked' = TRUE
    /\ UNCHANGED <<code, msgVars, respVars, encVars, idVars, decVars>>

Next ==
    \/ Decode
    \/ Encode
    \/ EncodeResponse
    \/ Redecode
    \/ \E data \in Payloads : CallRespondSuccess(data)
    \/ \E data \in Payloads : CallRespond(data)
    \/ \E errObj \in ErrorObjects : CallRespondErr(errObj)

Spec == Init /\ [][Next]_vars

NextID == ValidateID

SpecID == InitID /\ [][NextID]_vars

NextParams == CallParamsDecoder

SpecParams == InitParams /\ [][NextParams]_vars

NextCode == CallIsServerError

SpecCode == InitCode /\ [][NextCode]_vars


(***************************************************************************)
(* Properties                                                              *)
(***************************************************************************)
Decided == origin \in {"decoded", "rejected"}
Accepted == origin = "decoded"
Rejected == origin = "rejected"

HasRequestMember(w) == w.method # <<>> \/ w.params # <<>>
HasResponseMember(w) == w.result # <<>> \/ w.error # <<>>

IsRequestMessage(x) == x.Request # <<>> /\ x.Response = <<>>

\* the comparison TestRPC makes between the first and the second decode
SameMessage(a, b) ==
    /\ (a.Request = <<>>) = (b.Request = <<>>)
    /\ a.Request # <<>> /\ b.Request # <<>> =>
          /\ a.Request[1].Method = b.Request[1].Method
          /\ a.Request[1].Params = b.Request[1].Params
    /\ (a.Response = <<>>) = (b.Response = <<>>)
    /\ a.Response # <<>> /\ b.Response # <<>> =>
          /\ a.Response[1].Result = b.Response[1].Result
          /\ (a.Response[1].Error = <<>>) = (b.Response[1].Error = <<>>)
          /\ a.Response[1].Error # <<>> /\ b.Response[1].Error # <<>> =>
                a.Response[1].Error[1] = b.Response[1].Error[1]

\* C1: every input that decode accepts encodes without error, decodes
\* again without error, and the second Message equals the first in
\* Request/Response presence, method, params bytes, result bytes and error
\* code/message/data.
C1_RoundTrip ==
    Accepted =>
        /\ encOf = "m" => enc.err = "" /\ enc.data # <<>>
        /\ redecoded => err2 = "" /\ m2 # <<>> /\ SameMessage(m[1], m2[1])

\* C2: decode fails for every input with a result or error member and no
\* id member; a decoded Message with a Response never has a zero-length id.
C2_ResponseNeedsID ==
    /\ Decided /\ HasResponseMember(input[1]) /\ input[1].id = <<>> => Rejected
    /\ Accepted /\ m[1].Response # <<>> => ~IsNotification(m[1].ID)

C2_Witness ==
    /\ Rejected /\ input[1].result # <<>> /\ input[1].id = <<>>
    /\ err = "responses cannot be notifications"

\* C3: a decoded Message holds exactly one of Request and Response; an
\* input with request and response members is rejected, and so is an input
\* with neither.
C3_ExactlyOneOfRequestResponse ==
    /\ Accepted => (m[1].Request = <<>>) # (m[1].Response = <<>>)
    /\ Decided /\ HasRequestMember(input[1]) /\ HasResponseMember(input[1]) => Rejected
    /\ Decided /\ ~HasRequestMember(input[1]) /\ ~HasResponseMember(input[1]) => Rejected

C3_Witness ==
    /\ Rejected /\ input[1].method # <<>> /\ input[1].result # <<>>
    /\ err = "message must be either a request or response, but not both"

\* C4: decode succeeds only when the jsonrpc member is exactly the
\* literal "2.0"; any other value, or no jsonrpc member, is a decode error.
C4_VersionRequired ==
    Accepted => input[1].jsonrpc = <<"\"", "2", ".", "0", "\"">>

\* C5: encoding a Message with both Request and Response set fails, and no
\* bytes are returned with the failure.
C5_BothSetEncodesNothing ==
    encOf = "m" /\ m[1].Request # <<>> /\ m[1].Response # <<>> =>
        enc.err # "" /\ enc.data = <<>>

ExactlyOneOfResultError(r) == (r.Result = <<>>) # (r.Error = <<>>)

\* C6: every Response in a Message that decode accepts, or that encode
\* accepts, has exactly one of result and error.
C6_ExactlyOneOfResultError ==
    /\ Accepted /\ m[1].Response # <<>> => ExactlyOneOfResultError(m[1].Response[1])
    /\ encOf = "m" /\ enc.err = "" /\ m[1].Response # <<>> =>
          ExactlyOneOfResultError(m[1].Response[1])

\* a double-quoted JSON string and nothing else
IsJSONStringLiteral(id) == At(id, 1) = "\"" /\ ParseString(id, 2) = Len(id) + 1

IDGrammar(id) ==
    \/ Len(id) = 0
    \/ id = <<"n", "u", "l", "l">>
    \/ Len(id) > 0 /\ \A k \in 1..Len(id) : id[k] \in Digits
    \/ IsJSONStringLiteral(id)

\* an encoding the grammar has no place for: white space at either end, a
\* boolean, an array or object, or an unquoted sign, point or exponent
IDForbidden(id) ==
    /\ Len(id) > 0
    /\ \/ id[1] \in WhiteSpace \/ id[Len(id)] \in WhiteSpace
       \/ id \in {<<"t", "r", "u", "e">>, <<"f", "a", "l", "s", "e">>}
       \/ id[1] \in {"[", "{"}
       \/ id[1] # "\"" /\ \E k \in 1..Len(id) : id[k] \in {"+", "-", ".", "e", "E"}

\* C7 as stated: validation accepts exactly the zero-length encoding, null,
\* a non-empty run of decimal digits, and a double-quoted valid JSON string.
C7_GrammarAnyLength ==
    idChecked => (idOk <=> IDGrammar(idArg))

\* C7 amended: validation accepts exactly the encodings of at most 68 bytes
\* that are zero-length, null, a non-empty run of decimal digits, or a
\* double-quoted valid JSON string; white space at either end, booleans,
\* arrays, objects and unquoted signs, points and exponents are rejected.
C7_GrammarWithinLength ==
    idChecked =>
        /\ idOk <=> (IDGrammar(idArg) /\ Len(idArg) <= 68)
        /\ IDForbidden(idArg) => ~idOk

C7_Witness ==
    /\ idChecked /\ ~idOk
    /\ idArg = <<"\"", "a", "\"", " ">>

\* C8 as stated: every encoding longer than 66 bytes is rejected.
C8_Bound66 ==
    idChecked /\ Len(idArg) > 66 => ~idOk

\* C8 amended: every encoding longer than 68 bytes is rejected, whatever
\* its form.
C8_Bound68 ==
    idChecked /\ Len(idArg) > 68 => ~idOk

C8_Witness ==
    idChecked /\ ~idOk /\ Len(idArg) = 69 /\ IDGrammar(idArg)

Unserializable(data) == data.kind = "chan"

RespondOutcome ==
    /\ resp # <<>> /\ ~panicked
    /\ Check(resp[1]) = ""
    /\ encOf = "resp" => enc.err = "" /\ enc.data # <<>>
    /\ Unserializable(arg[1]) =>
          /\ resp[1].Response[1].Error # <<>>
          /\ resp[1].Response[1].Error[1].Code = -32603

\* C9 as stated: for every request Message, call or notification, Respond
\* returns a Message that passes the validity check and encodes without
\* error, carrying an InternalError error object when the payload cannot
\* be serialized.
C9_RespondAlwaysSendable ==
    respBy = "Respond" /\ IsRequestMessage(m[1]) => RespondOutcome

IsCallWithValidID(x) ==
    IsRequestMessage(x) /\ ~IsNotification(x.ID) /\ IsValid(x.ID) /\ JSONValid(x.ID)

\* C9 amended: the same for every request Message that carries an id that
\* is a valid id token (as the id of every decoded call is); a
\* notification is excluded.
C9_RespondToCallSendable ==
    /\ respBy = "Respond" /\ IsCallWithValidID(m[1]) => RespondOutcome
    /\ Accepted /\ IsRequestMessage(m[1]) /\ ~IsNotification(m[1].ID) =>
          IsCallWithValidID(m[1])

C9_Witness ==
    /\ Accepted /\ respBy = "Respond" /\ IsCallWithValidID(m[1])
    /\ Unserializable(arg[1])
    /\ encOf = "resp" /\ enc.err = ""
    /\ enc.data[1].error # <<>> /\ enc.data[1].error[1].code = <<"-", "3", "2", "6", "0", "3">>

\* C10: for a request decoded with no id, no RespondSuccess, Respond or
\* RespondErr followed by encode yields encoded response bytes.
C10_NotificationNeverAnswered ==
    Accepted /\ IsRequestMessage(m[1]) /\ IsNotification(m[1].ID) /\ encOf = "resp" =>
        enc.data = <<>>

\* the caller holds a Message that is already a Response
HoldsResponse == m # <<>> /\ m[1].Response # <<>>

\* C11: responding to a Message that is already a Response never yields a
\* Message: RespondSuccess returns an error and no Message, Respond and
\* RespondErr panic instead of returning, and the Message responded to is
\* left as it was.
C11_NoResponseToResponse ==
    /\ [](HoldsResponse /\ respBy # "none" =>
             /\ resp = <<>>
             /\ respBy = "RespondSuccess" => respErr # "" /\ ~panicked
             /\ respBy \in {"Respond", "RespondErr"} => panicked)
    /\ [][HoldsResponse => m' = m]_vars

C11_Witness ==
    HoldsResponse /\ respBy = "Respond" /\ panicked /\ resp = <<>>


\* a ParamsDecoder for a record destination was given a wire array
RecordGivenArray ==
    decDone /\ typ[1].kind = "struct" /\ params[1].shape = "array"

\* what a field of the given type holds once the element was decoded into it
BoundValue(type, tok) ==
    IF type = "string" /\ tok = <<"\"", "h", "e", "l", "l", "o", "\"">>
    THEN StringVal(<<"h", "e", "l", "l", "o">>)
    ELSE IF type = "int" /\ tok = <<"1", "2", "3", "4">> THEN IntVal(1234)
    ELSE ZeroOf(type)

\* C12: a ParamsDecoder for a record destination with N fields, given a
\* wire array, succeeds only if the array has exactly N elements, and then
\* field i holds element i; an array with fewer or more than N elements
\* returns the count-mismatch error and binds no element to any field.
C12_PositionalBinding ==
    RecordGivenArray =>
        /\ decErr = "" /\ ~decPanicked =>
              /\ Len(params[1].elems) = Len(typ[1].fields)
              /\ dest[1].alloc
              /\ Len(dest[1].vals) = Len(typ[1].fields)
              /\ \A i \in 1..Len(typ[1].fields) :
                    dest[1].vals[i] = BoundValue(typ[1].fields[i].type, params[1].elems[i])
        /\ Len(params[1].elems) # Len(typ[1].fields) =>
              /\ decErr = "expected %d params, got %d params"
              /\ ~decPanicked
              /\ dest[1].vals = ZeroFields(typ[1])

C12_Witness ==
    /\ RecordGivenArray /\ decErr = "" /\ ~decPanicked
    /\ Len(typ[1].fields) = 2
    /\ dest[1].vals = <<StringVal(<<"h", "e", "l", "l", "o">>), IntVal(1234)>>


\* the first byte of the params that is not white space
FirstByte(text) == At(text, SkipWS(text, 1))

\* C13: a ParamsDecoder for a list destination, whatever its element type,
\* returns an error and no decoded list when the first non-white-space byte
\* of the params is '{'.
C13_NamedIntoListFails ==
    decDone /\ typ[1].kind = "slice" /\ FirstByte(params[1].text) = "{" =>
        decErr # "" /\ ~dest[1].alloc /\ dest[1].vals = <<>> /\ ~decPanicked

C13_Witness ==
    /\ decDone /\ typ[1].kind = "slice" /\ typ[1].elem = "int"
    /\ At(params[1].text, 1) = " " /\ FirstByte(params[1].text) = "{"
    /\ decErr = "cannot decode named RPC params into list"

\* zero-length or white space only
IsEmptyParams(text) == \A k \in 1..Len(text) : text[k] \in WhiteSpace

\* the struct type without fields, itself and not a pointer to it or a
\* defined type over it
IsCanonicalEmptyRecord(t) ==
    t.kind = "struct" /\ ~t.ptr /\ ~t.named /\ t.fields = <<>>

\* C14: given empty params (zero-length or white space only) a ParamsDecoder
\* returns the zero value without error if and only if the destination is
\* the canonical zero-field record; for every other destination (record
\* with fields, list, scalar) empty params are an error.
C14_EmptyParams ==
    decDone /\ IsEmptyParams(params[1].text) =>
        /\ ~decPanicked
        /\ dest[1] = ZeroDest(typ[1])
        /\ (decErr = "") = IsCanonicalEmptyRecord(typ[1])
        /\ ~IsCanonicalEmptyRecord(typ[1]) => decErr = "empty params data"

C14_Witness ==
    /\ decDone /\ IsEmptyParams(params[1].text) /\ Len(params[1].text) > 1
    /\ IsCanonicalEmptyRecord(typ[1])
    /\ decErr = "" /\ dest[1] = [alloc |-> TRUE, vals |-> <<>>]


\* the reserved server-error band of JSON-RPC 2.0, both ends included
ServerErrorBand == -32099..-32000

\* C15: IsServerError(c) is true if and only if c lies in the band
\* -32099..-32000 taken as a half-open interval: false outside the band,
\* true strictly inside it (so for -32050), and true for exactly one of the
\* two endpoints.
C15_HalfOpenBand ==
    codeChecked =>
        /\ code \notin ServerErrorBand => ~isServer
        /\ code \in ServerErrorBand \ {-32099, -32000} => isServer
        /\ code = -32099 => isServer # IsServerError(-32000)
        /\ code = -32000 => isServer # IsServerError(-32099)


====
